---------------------------- MODULE Spec2Model ----------------------------
(***************************************************************************)
(* Model of my_serial_plot.py: a Tk/matplotlib tool that reads             *)
(* "key:value,key:value" telemetry lines from a serial port, keeps a       *)
(* rolling window per metric, draws it, and saves every row to an .xlsx    *)
(* workbook at exit.                                                       *)
(*                                                                         *)
(* Text is modelled as a sequence of lexemes: a metric name or a word is   *)
(* one lexeme, and the separators, blanks, digits, the line terminator and *)
(* an undecodable byte are one lexeme each.  Numbers are integers (the     *)
(* inputs carry no fractional part), so float("12") is 12.                 *)
(*                                                                         *)
(* The GUI thread is single-threaded: update_plot, pause, resume and the   *)
(* checkbox callback never interleave, so each is one step, except that    *)
(* update_plot is cut at its entry (line 121) and at each evaluation of    *)
(* `while ser.in_waiting` (line 124), because the serial device fills the  *)
(* driver's input buffer concurrently with the running tick.               *)
(***************************************************************************)
EXTENDS Integers, Sequences, FiniteSets, TLC

\* --------------------------------------------------------------------------
\* Bounds of the model
\* --------------------------------------------------------------------------
\* Capacity of a rolling buffer.  The source sets MAX_POINTS = 100
\* (my_serial_plot.py:29); the model scales it down so that the window fills
\* and evicts within the number of lines the device may send.
MAX_POINTS == 2
\* Number of lines the device sends in one run.
MaxSend == 3
\* How many of those lines may come from OddLines (the rest are PlainLines).
MaxOdd == 1
\* How many series may be hidden at the same time.
MaxHidden == 1

\* --------------------------------------------------------------------------
\* Lexemes
\* --------------------------------------------------------------------------
NL == "LF"          \* b'\n'
SP == "SP"          \* ' '
BAD == "xFF"        \* a byte that is not valid UTF-8
COMMA == ","
COLON == ":"

\* data_dict.keys() in the order of the dict literal.
KeyOrder == <<"current_speed", "current_duty", "target_speed">>
Keys == {KeyOrder[i] : i \in 1..Len(KeyOrder)}

Digit == ("0" :> 0) @@ ("1" :> 1) @@ ("2" :> 2) @@ ("3" :> 3) @@ ("4" :> 4)
         @@ ("5" :> 5) @@ ("6" :> 6) @@ ("7" :> 7) @@ ("8" :> 8) @@ ("9" :> 9)

Whitespace == {SP, NL}

\* --------------------------------------------------------------------------
\* What the device sends: terminated lines, which reach the input buffer
\* whole or in two parts
\* --------------------------------------------------------------------------
\* The line whose bytes may arrive in two parts, cut anywhere.
SplitLine == <<"current_duty", COLON, "-", "3", "2", NL>>

PlainLines ==
    { <<"current_speed", COLON, "1", NL>>,
      <<"current_speed", COLON, "2", COMMA, "current_duty", COLON, "3", COMMA,
        "target_speed", COLON, "4", NL>> }

OddLines ==
    { <<"current_speed", COLON, "abc", COMMA, "target_speed", COLON, "5", NL>>,
      <<"target_speed", COLON, "5", COMMA, "foo", COLON, "abc", NL>>,
      <<"foo", COLON, "1", NL>>,
      <<"target_speed", COLON, "5", COMMA, SP, "current_speed", SP, COLON, SP, "1", NL>>,
      <<BAD, NL>>,
      <<SP, NL>>,
      <<"hello", NL>>,
      <<"current_speed", COLON, "1", COMMA, "current_speed", COLON, "2", NL>>,
      SplitLine }

Lines == PlainLines \cup OddLines

\* --------------------------------------------------------------------------
\* State
\* --------------------------------------------------------------------------
VARIABLES
    pc,            \* where the GUI thread is: "idle" (in root.mainloop),
                   \* "tick" (update_plot entered), "drain" (at the while
                   \* test), "readline" (blocked in ser.readline),
                   \* "exited" (after the finally block), "failed" (the
                   \* process ended at line 19)
    rx,            \* bytes waiting in the serial input buffer
    wire,          \* bytes of the line being sent that have not arrived yet
    data_dict,     \* metric -> rolling buffer
    ws,            \* the worksheet: rows appended so far
    paused,
    line_visible,  \* the checkboxes' BooleanVars
    visible,       \* lines[key].get_visible()
    reported,      \* number of error messages printed by update_plot
    ser_open,      \* the serial port is open
    saved,         \* the workbooks written by wb.save, as a reader sees them
    hist,          \* history: every value appended to data_dict[key], in order
    read_lines,    \* history: every value returned by ser.readline()
    escaped,       \* an exception has left update_plot
    open_error,    \* serial.Serial raised SerialException at startup
    exit_cause,    \* how root.mainloop() ended: "none" while it runs
    ylim,          \* the y range last given to ax.set_ylim
    arrived,       \* history: every byte that reached the input buffer
    sent_in_pause, \* history: a line was sent while paused
    nsent,         \* number of lines the device has sent
    nodd           \* number of those taken from OddLines

vars == <<pc, rx, wire, data_dict, ws, paused, line_visible, visible, reported,
          ser_open, saved, hist, read_lines, escaped, open_error, exit_cause,
          ylim, arrived, sent_in_pause, nsent, nodd>>


\* --------------------------------------------------------------------------
\* Text helpers (bytes.decode, str.strip, str.split, float)
\* --------------------------------------------------------------------------
Contains(s, t) == \E i \in 1..Len(s) : s[i] = t

\* Index of the first occurrence of t in s, 0 when there is none.
FirstIndex(s, t) ==
    IF Contains(s, t)
    THEN CHOOSE i \in 1..Len(s) : s[i] = t /\ \A j \in 1..(i - 1) : s[j] # t
    ELSE 0

\* ser.readline() with timeout=1: the bytes up to and including the first
\* b'\n'; when the buffer holds no terminator the read times out and returns
\* whatever is there.
readline(buf) ==
    LET i == FirstIndex(buf, NL)
    IN  IF i = 0 THEN buf ELSE SubSeq(buf, 1, i)

\* bytes.decode('utf-8') raises UnicodeDecodeError (a ValueError) on an
\* invalid byte, and maps every other lexeme to itself.
DecodeFails(bytes) == Contains(bytes, BAD)

RECURSIVE lstrip(_)
lstrip(s) ==
    IF s # <<>> /\ Head(s) \in Whitespace THEN lstrip(Tail(s)) ELSE s

RECURSIVE rstrip(_)
rstrip(s) ==
    IF s # <<>> /\ s[Len(s)] \in Whitespace
    THEN rstrip(SubSeq(s, 1, Len(s) - 1))
    ELSE s

strip(s) == rstrip(lstrip(s))

\* str.split(sep): the pieces between the separators; one (possibly empty)
\* piece when there is no separator.
RECURSIVE split(_, _)
split(s, sep) ==
    LET i == FirstIndex(s, sep)
    IN  IF i = 0
        THEN <<s>>
        ELSE <<SubSeq(s, 1, i - 1)>> \o split(SubSeq(s, i + 1, Len(s)), sep)

RECURSIVE DigitsValue(_)
DigitsValue(s) ==
    IF s = <<>> THEN 0 ELSE 10 * DigitsValue(SubSeq(s, 1, Len(s) - 1)) + Digit[s[Len(s)]]

IsDigits(s) == s # <<>> /\ \A i \in 1..Len(s) : s[i] \in DOMAIN Digit

\* float(text) over the lexemes of the model: an optional sign and decimal
\* digits give the number; anything else (a word, the empty string, a lone
\* sign, a metric name glued to digits) raises ValueError.
float(s) ==
    IF s # <<>> /\ Head(s) \in {"-", "+"}
    THEN IF IsDigits(Tail(s))
         THEN [err |-> FALSE,
               val |-> IF Head(s) = "-" THEN 0 - DigitsValue(Tail(s)) ELSE DigitsValue(Tail(s))]
         ELSE [err |-> TRUE, val |-> 0]
    ELSE IF IsDigits(s)
         THEN [err |-> FALSE, val |-> DigitsValue(s)]
         ELSE [err |-> TRUE, val |-> 0]

\* --------------------------------------------------------------------------
\* update_plot: parsing one line into temp_data (lines 130-138)
\* --------------------------------------------------------------------------
\* Variant of SetItem in which a key already present keeps its first value.
SetItemKeepFirst(temp, key, value) ==
    IF \E i \in 1..Len(temp) : temp[i].key = key
    THEN temp
    ELSE Append(temp, [key |-> key, value |-> value])

\* temp_data is a dict: it keeps its keys in the order of first insertion, and
\* temp_data[key] = value overwrites the value of a key already present.
SetItem(temp, key, value) ==
    IF \E i \in 1..Len(temp) : temp[i].key = key
    THEN [i \in 1..Len(temp) |->
            IF temp[i].key = key THEN [key |-> key, value |-> value] ELSE temp[i]]
    ELSE Append(temp, [key |-> key, value |-> value])

\* Variant of KeyInDataDict without the membership test: any one-word key
\* passes.
KeyInAnyDict(key, d) == Len(key) = 1

\* `key in data_dict`: the stripped key text is the name of a stored metric.
KeyInDataDict(key, d) == Len(key) = 1 /\ key[1] \in DOMAIN d

\* The for loop over entries.  float() is called before the key is looked
\* up, and its ValueError leaves the loop (and the try block) at once.
RECURSIVE ParseEntries(_, _, _)
ParseEntries(entries, temp, d) ==
    IF entries = <<>>
    THEN [err |-> FALSE, temp |-> temp]
    ELSE LET entry == Head(entries)
             i == FirstIndex(entry, COLON)
             key == strip(SubSeq(entry, 1, i - 1))
             value == float(strip(SubSeq(entry, i + 1, Len(entry))))
         IN  IF i = 0
             THEN ParseEntries(Tail(entries), temp, d)
             ELSE IF value.err
             THEN [err |-> TRUE, temp |-> temp]
             ELSE IF KeyInDataDict(key, d)
             THEN ParseEntries(Tail(entries), SetItem(temp, key[1], value.val), d)
             ELSE ParseEntries(Tail(entries), temp, d)

\* --------------------------------------------------------------------------
\* update_plot: applying temp_data (lines 140-147)
\* --------------------------------------------------------------------------
\* Variants of AppendEvict with a slip in the eviction: the newest value is
\* dropped instead of the oldest; the list is trimmed one element too late.
AppendEvictNewest(buf, value) ==
    LET b == Append(buf, value)
    IN  IF Len(b) > MAX_POINTS THEN SubSeq(b, 1, Len(b) - 1) ELSE b

AppendEvictLate(buf, value) ==
    LET b == Append(buf, value)
    IN  IF Len(b) > MAX_POINTS + 1 THEN Tail(b) ELSE b

\* data_dict[key].append(value), then pop(0) when the list grew past
\* MAX_POINTS.
AppendEvict(buf, value) ==
    LET b == Append(buf, value)
    IN  IF Len(b) > MAX_POINTS THEN Tail(b) ELSE b

\* The for loop over temp_data.items().  data_dict[key] raises KeyError for a
\* key the dict does not hold; the appends made before it stay.
RECURSIVE ApplyTemp(_, _, _)
ApplyTemp(temp, d, h) ==
    IF temp = <<>>
    THEN [err |-> FALSE, d |-> d, h |-> h]
    ELSE LET key == Head(temp).key
             value == Head(temp).value
         IN  IF key \notin DOMAIN d
             THEN [err |-> TRUE, d |-> d, h |-> h]
             ELSE ApplyTemp(Tail(temp),
                            [d EXCEPT ![key] = AppendEvict(@, value)],
                            [h EXCEPT ![key] = Append(@, value)])

\* row_data: the values in the order temp_data yields them.
RowData(temp) == [i \in 1..Len(temp) |-> temp[i].value]

\* --------------------------------------------------------------------------
\* The workbook (openpyxl)
\* --------------------------------------------------------------------------
\* Variant of Worksheet.append that ignores a row without cells.
WsAppendNonEmpty(sheet, row) == IF row = <<>> THEN sheet ELSE Append(sheet, row)

\* Worksheet.append(row) writes the row's cells into row _current_row + 1 and
\* advances _current_row, also for a row without cells.
WsAppend(sheet, row) == Append(sheet, row)

\* wb.save writes the rows that hold at least one cell, at their row
\* numbers: a reader of the file sees rows 1..max_row, blank where nothing
\* was written, and max_row is the last row holding a cell.
MaxRow(sheet) ==
    LET used == {i \in 1..Len(sheet) : sheet[i] # <<>>}
    IN  IF used = {} THEN 1 ELSE CHOOSE i \in used : \A j \in used : j <= i

SavedRows(sheet) == SubSeq(sheet, 1, MaxRow(sheet))


\* --------------------------------------------------------------------------
\* update_plot: one pass of the while loop body (lines 125-151)
\* --------------------------------------------------------------------------
\* Variant of TryLine that stores each value as soon as it is parsed: the
\* values parsed before a float() error are already in the buffers when the
\* error ends the line.
TryLineEager(raw, d, h, sheet) ==
    IF DecodeFails(raw)
    THEN [exc |-> "ValueError", d |-> d, h |-> h, ws |-> sheet]
    ELSE LET line == strip(raw)
             parsed == ParseEntries(split(line, COMMA), <<>>, d)
             applied == ApplyTemp(parsed.temp, d, h)
         IN  IF line = <<>>
             THEN [exc |-> "none", d |-> d, h |-> h, ws |-> sheet]
             ELSE IF parsed.err
             THEN [exc |-> "ValueError", d |-> applied.d, h |-> applied.h, ws |-> sheet]
             ELSE [exc |-> "none", d |-> applied.d, h |-> applied.h,
                   ws |-> WsAppend(sheet, RowData(parsed.temp))]

\* The try block for one raw line.  exc names the exception that ended it
\* ("none" when it ran to its end or hit `continue`).
TryLine(raw, d, h, sheet) ==
    IF DecodeFails(raw)
    THEN [exc |-> "ValueError", d |-> d, h |-> h, ws |-> sheet]
    ELSE LET line == strip(raw)
             parsed == ParseEntries(split(line, COMMA), <<>>, d)
             applied == ApplyTemp(parsed.temp, d, h)
         IN  IF line = <<>>
             THEN [exc |-> "none", d |-> d, h |-> h, ws |-> sheet]
             ELSE IF parsed.err
             THEN [exc |-> "ValueError", d |-> d, h |-> h, ws |-> sheet]
             ELSE IF applied.err
             THEN [exc |-> "KeyError", d |-> applied.d, h |-> applied.h, ws |-> sheet]
             ELSE [exc |-> "none", d |-> applied.d, h |-> applied.h,
                   ws |-> WsAppend(sheet, RowData(parsed.temp))]

\* Variant of Caught whose handlers miss ValueError.
CaughtKeyErrorOnly(exc) == exc = "KeyError"

\* `except ValueError` (line 148) and `except Exception` (line 150) between
\* them catch every exception the try block can raise.
Caught(exc) == exc \in {"ValueError", "KeyError"}

\* Variant of ReturnsAtOnce that never returns early.
ReturnsNever(p) == FALSE

\* `if paused: return` (lines 121-122).
ReturnsAtOnce(p) == p

\* update_visibility(): every line's visibility is set from its checkbox.
update_visibility(lv) == [k \in Keys |-> lv[k]]

\* Variant of AfterOpenFailure in which the handler does not end the process
\* and the script goes on to the main loop.
AfterOpenFailureGoesOn == "idle"

\* Lines 17-19: the handler of SerialException prints the error and calls
\* exit(), which ends the process before anything below line 19 runs.
AfterOpenFailure == "failed"

\* The state once the module-level code has run up to root.mainloop()
\* (line 195), or has ended at line 19 because the port could not be opened.
Init ==
    /\ \/ /\ ser_open = TRUE
          /\ open_error = FALSE
          /\ pc = "idle"
       \/ /\ ser_open = FALSE
          /\ open_error = TRUE
          /\ pc = AfterOpenFailure
    /\ rx = <<>>
    /\ wire = <<>>
    /\ data_dict = [k \in Keys |-> <<>>]
    /\ ws = <<KeyOrder>>
    /\ paused = FALSE
    /\ line_visible = [k \in Keys |-> TRUE]
    /\ visible = [k \in Keys |-> TRUE]
    /\ reported = 0
    /\ saved = <<>>
    /\ hist = [k \in Keys |-> <<>>]
    /\ read_lines = <<>>
    /\ escaped = FALSE
    /\ exit_cause = "none"
    /\ ylim = <<0, 1>>
    /\ arrived = <<>>
    /\ sent_in_pause = FALSE
    /\ nsent = 0
    /\ nodd = 0

\* The device sends a line and all its bytes arrive.
DeviceSend(c) ==
    /\ ser_open
    /\ wire = <<>>
    /\ nsent < MaxSend
    /\ c \in OddLines => nodd < MaxOdd
    /\ rx' = rx \o c
    /\ arrived' = arrived \o c
    /\ sent_in_pause' = (sent_in_pause \/ paused)
    /\ nsent' = nsent + 1
    /\ nodd' = IF c \in OddLines THEN nodd + 1 ELSE nodd
    /\ UNCHANGED <<pc, wire, data_dict, ws, paused, line_visible, visible,
                   reported, ser_open, saved, hist, read_lines, escaped,
                   open_error, exit_cause, ylim>>

\* The device sends SplitLine and only its first k bytes have arrived.
DeviceSendPart(k) ==
    /\ ser_open
    /\ wire = <<>>
    /\ nsent < MaxSend
    /\ nodd < MaxOdd
    /\ rx' = rx \o SubSeq(SplitLine, 1, k)
    /\ arrived' = arrived \o SubSeq(SplitLine, 1, k)
    /\ sent_in_pause' = (sent_in_pause \/ paused)
    /\ wire' = SubSeq(SplitLine, k + 1, Len(SplitLine))
    /\ nsent' = nsent + 1
    /\ nodd' = nodd + 1
    /\ UNCHANGED <<pc, data_dict, ws, paused, line_visible, visible, reported,
                   ser_open, saved, hist, read_lines, escaped,
                   open_error, exit_cause, ylim>>

\* The rest of the line arrives.
DeviceSendRest ==
    /\ ser_open
    /\ wire # <<>>
    /\ rx' = rx \o wire
    /\ arrived' = arrived \o wire
    /\ wire' = <<>>
    /\ UNCHANGED <<pc, data_dict, ws, paused, line_visible, visible, reported,
                   ser_open, saved, hist, read_lines, escaped, nsent, nodd,
                   open_error, exit_cause, ylim, sent_in_pause>>

\* The animation timer fires and calls update_plot (line 181, line 120).
\* The timer is re-armed only when the callback returns normally.
TimerFires ==
    /\ pc = "idle"
    /\ ~escaped
    /\ pc' = "tick"
    /\ UNCHANGED <<rx, wire, data_dict, ws, paused, line_visible, visible, reported,
                   ser_open, saved, hist, read_lines, escaped, nsent, nodd,
                   open_error, exit_cause, ylim, arrived, sent_in_pause>>

\* Lines 121-122: a paused tick returns; any other goes to the while loop.
CheckPaused ==
    /\ pc = "tick"
    /\ pc' = IF ReturnsAtOnce(paused) THEN "idle" ELSE "drain"
    /\ UNCHANGED <<rx, wire, data_dict, ws, paused, line_visible, visible, reported,
                   ser_open, saved, hist, read_lines, escaped, nsent, nodd,
                   open_error, exit_cause, ylim, arrived, sent_in_pause>>

\* Lines 124-126: in_waiting is non-zero but the buffer holds no line
\* terminator: ser.readline() (timeout=1, line 15) blocks, waiting for more
\* bytes.
ReadBlocks ==
    /\ pc = "drain"
    /\ rx # <<>>
    /\ ~Contains(rx, NL)
    /\ pc' = "readline"
    /\ UNCHANGED <<rx, wire, data_dict, ws, paused, line_visible, visible, reported,
                   ser_open, saved, hist, read_lines, escaped, nsent, nodd,
                   open_error, exit_cause, ylim, arrived, sent_in_pause>>

\* Lines 124-151: one line is read and processed.  ser.readline() returns at
\* once when the buffer holds a terminated line; a blocked readline returns
\* when the terminator has arrived or when its timeout expires, and then
\* gives whatever bytes are there.
DrainLine ==
    /\ \/ pc = "drain" /\ Contains(rx, NL)
       \/ pc = "readline"
    /\ LET raw == readline(rx)
           r == TryLine(raw, data_dict, hist, ws)
       IN  /\ rx' = SubSeq(rx, Len(raw) + 1, Len(rx))
           /\ read_lines' = Append(read_lines, raw)
           /\ data_dict' = r.d
           /\ hist' = r.h
           /\ ws' = r.ws
           /\ IF r.exc = "none"
              THEN /\ pc' = "drain"
                   /\ UNCHANGED <<reported, escaped>>
              ELSE IF Caught(r.exc)
              THEN /\ reported' = reported + 1
                   /\ pc' = "drain"
                   /\ UNCHANGED escaped
              ELSE /\ escaped' = TRUE
                   /\ pc' = "idle"
                   /\ UNCHANGED reported
    /\ UNCHANGED <<wire, paused, line_visible, visible, ser_open, saved, nsent, nodd,
                   open_error, exit_cause, ylim, arrived, sent_in_pause>>

\* Python's order on lists: lexicographic, a proper prefix being smaller.
RECURSIVE ListLess(_, _)
ListLess(a, b) ==
    IF b = <<>> THEN FALSE
    ELSE IF a = <<>> THEN TRUE
    ELSE IF Head(a) < Head(b) THEN TRUE
    ELSE IF Head(a) > Head(b) THEN FALSE
    ELSE ListLess(Tail(a), Tail(b))

\* min(...) and max(...) over the generator of the buffers themselves
\* (lines 160-161): the smallest and the largest list.
MinList(d) ==
    CHOOSE l \in {d[k] : k \in DOMAIN d} :
        \A k \in DOMAIN d : ~ListLess(d[k], l)

MaxList(d) ==
    CHOOSE l \in {d[k] : k \in DOMAIN d} :
        \A k \in DOMAIN d : ~ListLess(l, d[k])

\* min(list, default=0) and max(list, default=0).
MinOrDefault(l) ==
    IF l = <<>> THEN 0
    ELSE CHOOSE x \in {l[i] : i \in 1..Len(l)} : \A i \in 1..Len(l) : x <= l[i]

MaxOrDefault(l) ==
    IF l = <<>> THEN 0
    ELSE CHOOSE x \in {l[i] : i \in 1..Len(l)} : \A i \in 1..Len(l) : x >= l[i]

\* The margin subtracted from y_min and added to y_max (lines 160-161).
Margin == 10

\* The y range of lines 158-162: set when some buffer holds data, else left
\* as it was.
NewYlim(d, old) ==
    IF \E k \in DOMAIN d : d[k] # <<>>
    THEN <<MinOrDefault(MinList(d)) - Margin, MaxOrDefault(MaxList(d)) + Margin>>
    ELSE old

\* Lines 153-166: in_waiting is zero; the lines are redrawn and the tick ends.
Render ==
    /\ pc = "drain"
    /\ rx = <<>>
    /\ ylim' = NewYlim(data_dict, ylim)
    /\ visible' = update_visibility(line_visible)
    /\ pc' = "idle"
    /\ UNCHANGED <<rx, wire, data_dict, ws, paused, line_visible, reported,
                   ser_open, saved, hist, read_lines, escaped, nsent, nodd,
                   open_error, exit_cause, arrived, sent_in_pause>>

\* Variant of pause that also discards the unread input, as a call of
\* ser.reset_input_buffer() would.
pauseFlushing ==
    /\ pc = "idle"
    /\ paused' = TRUE
    /\ rx' = <<>>
    /\ UNCHANGED <<pc, wire, data_dict, ws, line_visible, visible, reported,
                   ser_open, saved, hist, read_lines, escaped, nsent, nodd,
                   open_error, exit_cause, ylim, arrived, sent_in_pause>>

\* Lines 170-172, 187.
pause ==
    /\ pc = "idle"
    /\ paused' = TRUE
    /\ UNCHANGED <<pc, rx, wire, data_dict, ws, line_visible, visible, reported,
                   ser_open, saved, hist, read_lines, escaped, nsent, nodd,
                   open_error, exit_cause, ylim, arrived, sent_in_pause>>

\* Lines 175-177, 190.
resume ==
    /\ pc = "idle"
    /\ paused' = FALSE
    /\ UNCHANGED <<pc, rx, wire, data_dict, ws, line_visible, visible, reported,
                   ser_open, saved, hist, read_lines, escaped, nsent, nodd,
                   open_error, exit_cause, ylim, arrived, sent_in_pause>>

\* Variant of Toggle that also empties the buffer of the series it toggles.
ToggleClearing(k) ==
    /\ pc = "idle"
    /\ line_visible[k] =>
          Cardinality({j \in Keys : ~line_visible[j]}) < MaxHidden
    /\ line_visible' = [line_visible EXCEPT ![k] = ~@]
    /\ visible' = update_visibility(line_visible')
    /\ data_dict' = [data_dict EXCEPT ![k] = <<>>]
    /\ UNCHANGED <<pc, rx, wire, ws, paused, reported, ser_open, saved,
                   hist, read_lines, escaped, nsent, nodd,
                   open_error, exit_cause, ylim, arrived, sent_in_pause>>

\* A checkbox is clicked: Tk flips its BooleanVar and runs the command,
\* update_visibility (lines 64-68, 85-87).
Toggle(k) ==
    /\ pc = "idle"
    /\ line_visible[k] =>
          Cardinality({j \in Keys : ~line_visible[j]}) < MaxHidden
    /\ line_visible' = [line_visible EXCEPT ![k] = ~@]
    /\ visible' = update_visibility(line_visible')
    /\ UNCHANGED <<pc, rx, wire, data_dict, ws, paused, reported, ser_open, saved,
                   hist, read_lines, escaped, nsent, nodd,
                   open_error, exit_cause, ylim, arrived, sent_in_pause>>

\* The ways root.mainloop() can end: the window is closed and it returns,
\* Ctrl-C raises KeyboardInterrupt out of it, or another exception leaves it.
ExitCauses == {"closed", "KeyboardInterrupt", "error"}

\* Variant of RunsFinally in which the cleanup is skipped when an exception
\* other than KeyboardInterrupt ends the main loop.
RunsFinallyUnlessError(cause) == cause # "error"

\* try / except KeyboardInterrupt / finally (lines 194-198): the finally
\* block runs however the try block ended.
RunsFinally(cause) == cause \in ExitCauses

\* Lines 194-202: the main loop ends; the finally block closes the port and
\* saves the workbook, once.
Shutdown(cause) ==
    /\ pc = "idle"
    /\ pc' = "exited"
    /\ exit_cause' = cause
    /\ IF RunsFinally(cause)
       THEN /\ ser_open' = FALSE
            /\ saved' = Append(saved, SavedRows(ws))
       ELSE UNCHANGED <<ser_open, saved>>
    /\ UNCHANGED <<rx, wire, data_dict, ws, paused, line_visible, visible, reported,
                   hist, read_lines, escaped, open_error, ylim, arrived,
                   sent_in_pause, nsent, nodd>>

Next ==
    \/ \E c \in Lines : DeviceSend(c)
    \/ \E k \in 1..(Len(SplitLine) - 1) : DeviceSendPart(k)
    \/ DeviceSendRest
    \/ TimerFires
    \/ CheckPaused
    \/ ReadBlocks
    \/ DrainLine
    \/ Render
    \/ pause
    \/ resume
    \/ \E k \in Keys : Toggle(k)
    \/ \E cause \in ExitCauses : Shutdown(cause)

Spec == Init /\ [][Next]_vars


\* --------------------------------------------------------------------------
\* Properties
\* --------------------------------------------------------------------------
LastN(s, n) == SubSeq(s, (IF Len(s) > n THEN Len(s) - n ELSE 0) + 1, Len(s))

Elements(s) == {s[i] : i \in 1..Len(s)}

\* C1: every buffer holds exactly the most recent min(N, MAX_POINTS) of the N
\* values accepted for its metric, in arrival order.
C1_FifoWindow ==
    \A k \in Keys : data_dict[k] = LastN(hist[k], MAX_POINTS)

\* MAX_POINTS + 1 values went to one metric: the buffer is full, the first
\* value is gone and the last one is its final element.
C1_Witness ==
    \E k \in Keys :
        /\ Len(hist[k]) = MAX_POINTS + 1
        /\ Len(data_dict[k]) = MAX_POINTS
        /\ hist[k][1] \notin Elements(data_dict[k])
        /\ data_dict[k][MAX_POINTS] = hist[k][MAX_POINTS + 1]

\* C2: no buffer is ever longer than MAX_POINTS.
C2_LengthAtMostCapacity ==
    \A k \in DOMAIN data_dict : Len(data_dict[k]) <= MAX_POINTS

\* A tick is draining, and a full buffer has already evicted a value.
C2_Witness ==
    /\ pc = "drain"
    /\ \E k \in Keys : Len(data_dict[k]) = MAX_POINTS /\ Len(hist[k]) > MAX_POINTS

\* C3: no step taken while paused changes a buffer or the worksheet.
C3_PausedFrame ==
    [][paused => (data_dict' = data_dict /\ ws' = ws)]_vars

\* update_plot has been called while paused, with bytes waiting on the port
\* and data already stored.
C3_Witness ==
    /\ paused
    /\ pc = "tick"
    /\ rx # <<>>
    /\ Len(ws) > 1


\* Lines named by the properties below.
AbcFirstLine ==
    <<"current_speed", COLON, "abc", COMMA, "target_speed", COLON, "5", NL>>

AbcLastLine == <<"target_speed", COLON, "5", COMMA, "foo", COLON, "abc", NL>>

FooLine == <<"foo", COLON, "1", NL>>

OneLine == <<"current_speed", COLON, "1", NL>>

ThreeLine ==
    <<"current_speed", COLON, "2", COMMA, "current_duty", COLON, "3", COMMA,
      "target_speed", COLON, "4", NL>>

\* The step is one pass of the drain loop, and raw is the line it read.
ReadsLine(raw) == read_lines' = Append(read_lines, raw)

\* C4: a fragment whose value is not a number is the only thing dropped from
\* its line: the line's other recognized fragments are recorded and one parse
\* error is reported, wherever the bad fragment sits.
C4_OnlyBadFragmentDropped ==
    [][\A raw \in {AbcFirstLine, AbcLastLine} :
          ReadsLine(raw) =>
             /\ hist'["target_speed"] = Append(hist["target_speed"], 5)
             /\ data_dict'["target_speed"] # <<>>
             /\ data_dict'["target_speed"][Len(data_dict'["target_speed"])] = 5
             /\ reported' = reported + 1]_vars

\* C5: the store's key set is always the three recognized metrics; a buffer
\* changes only in a drain pass whose line names its metric; and a line
\* with an unrecognized key and a numeric value is dropped without an error
\* and without touching a buffer.
C5_UnknownKeysDiscarded ==
    [][/\ DOMAIN data_dict = Keys
       /\ DOMAIN data_dict' = Keys
       /\ \A k \in Keys :
             data_dict'[k] # data_dict[k] =>
                /\ read_lines' # read_lines
                /\ Contains(readline(rx), k)
       /\ ReadsLine(FooLine) =>
             /\ data_dict' = data_dict
             /\ reported' = reported]_vars

\* "foo:1" has been read with values already in a buffer, and no error was
\* reported.
C5_Witness ==
    /\ \E i \in 1..Len(read_lines) : read_lines[i] = FooLine
    /\ reported = 0
    /\ data_dict["current_speed"] # <<>>
    /\ DOMAIN data_dict = Keys

\* C6: every data row of the worksheet is as wide as the header, one cell
\* per recognized metric.
C6_RowWidthConstant ==
    \A i \in 2..Len(ws) : Len(ws[i]) = Len(KeyOrder)

\* The values a drain pass recorded, arranged in the fixed metric order.
OrderedRow(h, hp) ==
    LET ks == SelectSeq(KeyOrder, LAMBDA k : hp[k] # h[k])
    IN  [i \in 1..Len(ks) |-> hp[ks[i]][Len(hp[ks[i]])]]

\* C7: a row appended to the worksheet lists the values recorded by its line
\* in the fixed order current_speed, current_duty, target_speed.
C7_RowInMetricOrder ==
    [][ws' # ws => ws' = Append(ws, OrderedRow(hist, hist'))]_vars

\* C8: a saved workbook is the header row followed by every row appended
\* during ingestion, in order; its data row count is the number of rows
\* appended.
C8_ArtifactIsHeaderThenEveryRow ==
    \A i \in 1..Len(saved) :
        /\ Len(saved[i]) = Len(ws)
        /\ saved[i][1] = KeyOrder
        /\ \A j \in 2..Len(ws) : saved[i][j] = ws[j]

\* C9: a step that flips a checkbox changes the drawn visibilities to match
\* the checkboxes and leaves the buffers and the worksheet alone.
C9_ToggleFrame ==
    [][line_visible' # line_visible =>
          /\ visible' = line_visible'
          /\ data_dict' = data_dict
          /\ ws' = ws
          /\ hist' = hist]_vars

\* While paused, a series that holds data is hidden.
C9_Witness ==
    /\ paused
    /\ Len(ws) > 1
    /\ \E k \in Keys :
          /\ ~line_visible[k]
          /\ ~visible[k]
          /\ data_dict[k] # <<>>

\* Lines that fail to decode or to parse, as the serial port may deliver them
\* (the last two are SplitLine cut by a read timeout).
MalformedLines ==
    { <<BAD, NL>>, AbcFirstLine, AbcLastLine,
      <<"current_duty", COLON>>, <<"current_duty", COLON, "-">> }

\* C10: a drain pass never lets an exception out and always returns to the
\* loop test; on a malformed line it reports one error and changes nothing;
\* a valid line is ingested whatever came before it; and a tick leaves the
\* loop only when the input buffer is empty.
C10_MalformedSkipped ==
    [][/\ read_lines' # read_lines =>
             /\ ~escaped'
             /\ pc' = "drain"
             /\ \A raw \in MalformedLines :
                   ReadsLine(raw) =>
                      /\ reported' = reported + 1
                      /\ UNCHANGED <<data_dict, ws, hist>>
             /\ ReadsLine(OneLine) =>
                   /\ reported' = reported
                   /\ ws' = Append(ws, <<1>>)
                   /\ hist' = [hist EXCEPT !["current_speed"] = Append(@, 1)]
             /\ ReadsLine(ThreeLine) =>
                   /\ reported' = reported
                   /\ ws' = Append(ws, <<2, 3, 4>>)
                   /\ hist' = [hist EXCEPT !["current_speed"] = Append(@, 2),
                                           !["current_duty"] = Append(@, 3),
                                           !["target_speed"] = Append(@, 4)]
       /\ (pc \in {"drain", "readline"} /\ pc' = "idle") =>
             /\ rx = <<>>
             /\ ~escaped']_vars

\* A valid line was read right after a malformed one and is in the log.
C10_Witness ==
    /\ reported > 0
    /\ Len(ws) > 1
    /\ \E i \in 1..(Len(read_lines) - 1) :
          /\ read_lines[i] \in MalformedLines
          /\ read_lines[i + 1] \in {OneLine, ThreeLine}


\* C11: however the main loop ended, the port is closed and the workbook has
\* been written exactly once, holding the worksheet as it is (nothing was
\* appended after the write), and no tick is running or can start; before the
\* main loop ends nothing is written.
C11_CleanupOnEveryExit ==
    /\ exit_cause # "none" =>
          /\ pc = "exited"
          /\ ~ser_open
          /\ Len(saved) = 1
          /\ saved[1] = SavedRows(ws)
          /\ ~ENABLED (TimerFires \/ CheckPaused \/ ReadBlocks \/ DrainLine \/ Render)
    /\ exit_cause = "none" => saved = <<>>

\* An exception other than KeyboardInterrupt ended the main loop after data
\* was ingested, and the workbook holding that data is on disk.
C11_Witness ==
    /\ exit_cause = "error"
    /\ ~ser_open
    /\ Len(saved) = 1
    /\ Len(saved[1]) > 1


\* C12: a tick never waits for bytes that have not arrived: it is never
\* blocked inside ser.readline().
C12_TickNeverWaits ==
    pc # "readline"


\* The values held by all the buffers together.
AllValues(d) == UNION {Elements(d[k]) : k \in DOMAIN d}

\* C13: a tick that ends with data in some buffer sets the y range to
\* (m - 10, M + 10), m and M being the least and the greatest value held in
\* any buffer.
C13_AxisIsGlobalRange ==
    [][(pc = "drain" /\ pc' = "idle" /\ AllValues(data_dict) # {}) =>
          \E m, M \in AllValues(data_dict) :
             /\ \A v \in AllValues(data_dict) : m <= v /\ v <= M
             /\ ylim' = <<m - 10, M + 10>>]_vars


\* C14: when the port could not be opened the process has ended at line 19:
\* the main loop is never entered, no tick runs, no line is read, no buffer
\* or worksheet row is written and no file is saved.
C14_OpenFailureEndsProcess ==
    open_error =>
       /\ pc = "failed"
       /\ exit_cause = "none"
       /\ read_lines = <<>>
       /\ \A k \in Keys : data_dict[k] = <<>> /\ hist[k] = <<>>
       /\ Len(ws) <= 1
       /\ saved = <<>>
       /\ ~ENABLED Next

\* The port could not be opened and the process has ended.
C14_Witness ==
    /\ open_error
    /\ ~ser_open
    /\ pc = "failed"


DupLine ==
    <<"current_speed", COLON, "1", COMMA, "current_speed", COLON, "2", NL>>

\* C15: a line that names one metric twice appends one value to that
\* metric's buffer and one cell to the row, and the value is the one of the
\* last occurrence; the other buffers are left alone.
C15_LastOccurrenceWins ==
    [][ReadsLine(DupLine) =>
          /\ hist' = [hist EXCEPT !["current_speed"] = Append(@, 2)]
          /\ Len(data_dict'["current_speed"]) > 0
          /\ data_dict'["current_speed"][Len(data_dict'["current_speed"])] = 2
          /\ \A k \in Keys \ {"current_speed"} : data_dict'[k] = data_dict[k]
          /\ ws' = Append(ws, <<2>>)
          /\ reported' = reported]_vars

\* "current_speed:1,current_speed:2" has been ingested on top of earlier data.
C15_Witness ==
    /\ \E i \in 1..Len(read_lines) : read_lines[i] = DupLine
    /\ Len(hist["current_speed"]) > 1
    /\ ws[Len(ws)] = <<2>>


\* C16: every line handed to the decoder and the parser is complete: it ends
\* with the line terminator.
C16_OnlyTerminatedLinesParsed ==
    \A i \in 1..Len(read_lines) :
        /\ read_lines[i] # <<>>
        /\ read_lines[i][Len(read_lines[i])] = NL


\* C17: only a drain pass changes the buffers or the worksheet, and it does
\* so all or nothing: either it leaves both alone, or it appends exactly one
\* row and that row holds exactly the values it appended to the buffers, one
\* per metric touched.  A line that fails to decode or that has a
\* non-numeric value in any fragment, recognized key or not, is of the first
\* kind.
C17_LineAtomic ==
    [][/\ read_lines' = read_lines => UNCHANGED <<data_dict, hist, ws>>
       /\ read_lines' # read_lines =>
             \/ UNCHANGED <<data_dict, hist, ws>>
             \/ LET changed == {k \in Keys : hist'[k] # hist[k]}
                    row == ws'[Len(ws')]
                IN  /\ ws' = Append(ws, row)
                    /\ Len(row) = Cardinality(changed)
                    /\ \A k \in changed :
                          /\ Len(hist'[k]) = Len(hist[k]) + 1
                          /\ hist'[k][Len(hist'[k])] \in Elements(row)
                          /\ data_dict'[k][Len(data_dict'[k])] = hist'[k][Len(hist'[k])]
                    /\ \A k \in Keys \ changed : data_dict'[k] = data_dict[k]
       /\ \A raw \in {<<BAD, NL>>, AbcFirstLine, AbcLastLine} :
             ReadsLine(raw) => UNCHANGED <<data_dict, hist, ws>>]_vars

\* "target_speed:5,foo:abc" was rejected whole, and the three-metric line was
\* ingested whole.
C17_Witness ==
    /\ \E i \in 1..Len(read_lines) : read_lines[i] = AbcLastLine
    /\ \E i \in 1..Len(read_lines) : read_lines[i] = ThreeLine
    /\ reported = 1
    /\ Len(ws) = 2
    /\ ws[2] = <<2, 3, 4>>
    /\ hist = [k \in Keys |->
                 IF k = "current_speed" THEN <<2>>
                 ELSE IF k = "current_duty" THEN <<3>> ELSE <<4>>]


\* The metrics named on a raw line: the recognized names that start a
\* comma-separated fragment and are followed by a colon, blanks aside.
RecognizedOn(raw) ==
    {k \in Keys :
        \E i \in 1..Len(raw) :
            /\ raw[i] = k
            /\ \E j \in (i + 1)..Len(raw) :
                  /\ raw[j] = COLON
                  /\ \A m \in (i + 1)..(j - 1) : raw[m] \in Whitespace
            /\ \E j \in 0..(i - 1) :
                  /\ j > 0 => raw[j] = COMMA
                  /\ \A m \in (j + 1)..(i - 1) : raw[m] \in Whitespace}

HelloLine == <<"hello", NL>>

BlankLine == <<SP, NL>>

\* C18: a drain pass whose line is blank after stripping appends no row and
\* reports nothing; a pass that reports an error appends no row; every other
\* pass appends exactly one row, as wide as the number of distinct recognized
\* metrics on the line.  "foo:1" and "hello" append an empty row.
C18_OneRowPerGoodLine ==
    [][read_lines' # read_lines =>
          LET raw == read_lines'[Len(read_lines')]
          IN  /\ read_lines' = Append(read_lines, raw)
              /\ IF reported' # reported
                 THEN ws' = ws
                 ELSE IF ~DecodeFails(raw) /\ strip(raw) = <<>>
                 THEN ws' = ws
                 ELSE /\ Len(ws') = Len(ws) + 1
                      /\ ws' = Append(ws, ws'[Len(ws')])
                      /\ Len(ws'[Len(ws')]) = Cardinality(RecognizedOn(raw))
              /\ raw \in {FooLine, HelloLine} => ws' = Append(ws, <<>>) /\ reported' = reported
              /\ raw = BlankLine => ws' = ws /\ reported' = reported
              /\ raw = DupLine => Len(ws'[Len(ws')]) = 1 /\ reported' = reported]_vars

\* "foo:1" left an empty row between the header and the row of a line with
\* three metrics.
C18_Witness ==
    /\ read_lines = <<FooLine, ThreeLine>>
    /\ reported = 0
    /\ ws = <<KeyOrder, <<>>, <<2, 3, 4>>>>


RECURSIVE Flatten(_)
Flatten(seqs) == IF seqs = <<>> THEN <<>> ELSE Head(seqs) \o Flatten(Tail(seqs))

\* The buffers, the history and the worksheet after the given raw lines have
\* been ingested one after the other, starting from the state after
\* construction, with no pause anywhere.
RECURSIVE Replay(_, _, _, _)
Replay(lines, d, h, sheet) ==
    IF lines = <<>>
    THEN [d |-> d, h |-> h, ws |-> sheet]
    ELSE LET r == TryLine(Head(lines), d, h, sheet)
         IN  Replay(Tail(lines), r.d, r.h, r.ws)

Uninterrupted(lines) ==
    Replay(lines, [k \in Keys |-> <<>>], [k \in Keys |-> <<>>], <<KeyOrder>>)

\* C19: pausing loses no data.  Every byte that has arrived is either in a
\* line already read or still queued, in arrival order; while paused nothing
\* is read and the queue only grows; a drain that gives control back has
\* emptied the queue; and the buffers and the worksheet are what ingesting
\* the lines read so far gives without any pause.
C19_PauseLosesNothing ==
    /\ [](/\ arrived = Flatten(read_lines) \o rx
          /\ data_dict = Uninterrupted(read_lines).d
          /\ hist = Uninterrupted(read_lines).h
          /\ ws = Uninterrupted(read_lines).ws)
    /\ [][/\ (paused /\ paused') =>
                /\ read_lines' = read_lines
                /\ Len(rx') >= Len(rx)
                /\ SubSeq(rx', 1, Len(rx)) = rx
          /\ (pc \in {"drain", "readline"} /\ pc' = "idle") =>
                /\ rx' = <<>>
                /\ arrived' = Flatten(read_lines')]_vars

\* Lines arrived during a pause, and after resume a tick has ingested all of
\* them in order.
C19_Witness ==
    /\ sent_in_pause
    /\ ~paused
    /\ pc = "idle"
    /\ rx = <<>>
    /\ wire = <<>>
    /\ read_lines = <<OneLine, ThreeLine>>
    /\ arrived = OneLine \o ThreeLine
    /\ ws = <<KeyOrder, <<1>>, <<2, 3, 4>>>>

=============================================================================
